---- MODULE Spec2Model ----
(***************************************************************************)
(* Finger Flow: the timing and judgment core of a four-lane rhythm game.   *)
(*                                                                         *)
(* Time.  The source computes with seconds held in doubles and with        *)
(* millisecond timestamps (performance.now, requestAnimationFrame).  The   *)
(* model holds every time as an integer number of milliseconds: a value of *)
(* s seconds is the integer 1000*s, so 0.050 s is 50 and the conversion    *)
(* elapsedMs / 1000 of Conductor.update is exact.  Rounding of doubles is  *)
(* not modelled.                                                           *)
(*                                                                         *)
(* A Note object is a record; NoteManager.notes holds the objects and      *)
(* NoteManager.activeNotes holds references to them (indices into notes).  *)
(* DOM elements, console output and the frame statistics (deltaTime, fps,  *)
(* frameCount, lastFrameTime) carry no game state and are left out.        *)
(*                                                                         *)
(* raf is the list of callbacks handed to requestAnimationFrame and not    *)
(* yet run, in registration order; awaiting is the list of async functions *)
(* suspended at "await audioManager.play()", in the order they will be     *)
(* continued; audio is the AudioManager with the two attributes of its     *)
(* media element the game depends on (paused, ended).                      *)
(***************************************************************************)
EXTENDS Integers, Sequences, FiniteSets, TLC

VARIABLES now, conductor, noteManager, game, last, raf, audio, awaiting

vars == <<now, conductor, noteManager, game, last, raf, audio, awaiting>>

-----------------------------------------------------------------------------
(* Program constants (input.js)                                            *)

JUDGMENT_WINDOWS == [PERFECT |-> 50, GREAT |-> 100, GOOD |-> 150, MISS |-> 200]

JUDGMENT_SCORES == [PERFECT |-> 100, GREAT |-> 80, GOOD |-> 50, MISS |-> 0]

spawnTime == 2000

Tracks == 0..3

null == "null"

-----------------------------------------------------------------------------
(* Bounds of the model                                                     *)

MaxChartLen == 2

MaxNow == 3300

StartNow == 700

FrameDeltas == {50, 1000, 2350}

(* The chart entries charts are drawn from: two notes of one lane 0.200 s  *)
(* apart, two lanes at one time, and a note 0.030 s off the frame grid.    *)
ChartEntries ==
    {[track |-> 0, time |-> 2100], [track |-> 1, time |-> 2100],
     [track |-> 1, time |-> 2130], [track |-> 0, time |-> 2300]}

-----------------------------------------------------------------------------
(* Note                                                                    *)

Note(track, hitTime) ==
    [track |-> track, hitTime |-> hitTime, isHit |-> FALSE, isMissed |-> FALSE]

Note_miss(n) == [n EXCEPT !.isMissed = TRUE]

Note_hit(n, judgment) == [n EXCEPT !.isHit = TRUE]

Abs(x) == IF x < 0 THEN -x ELSE x

(* Note.update timing a note out already at exactly the Miss window.        *)
Note_update_inclusiveMiss(n, currentTime) ==
    IF n.isHit \/ n.isMissed THEN n
    ELSE LET timeDiff == n.hitTime - currentTime
         IN  IF timeDiff <= -JUDGMENT_WINDOWS.MISS THEN Note_miss(n) ELSE n

(* Note.update without the early return for a resolved note.               *)
Note_update_unguarded(n, currentTime) ==
    LET timeDiff == n.hitTime - currentTime
    IN  IF timeDiff < -JUDGMENT_WINDOWS.MISS THEN Note_miss(n) ELSE n

Note_update(n, currentTime) ==
    IF n.isHit \/ n.isMissed THEN n
    ELSE LET timeDiff == n.hitTime - currentTime
         IN  IF timeDiff < -JUDGMENT_WINDOWS.MISS THEN Note_miss(n) ELSE n

(* The window cascade of Note.judge with exclusive bounds.                 *)
judgeTier_exclusive(timeDiff) ==
    IF timeDiff < JUDGMENT_WINDOWS.PERFECT THEN "PERFECT"
    ELSE IF timeDiff < JUDGMENT_WINDOWS.GREAT THEN "GREAT"
    ELSE IF timeDiff < JUDGMENT_WINDOWS.GOOD THEN "GOOD"
    ELSE IF timeDiff <= JUDGMENT_WINDOWS.MISS THEN "MISS"
    ELSE null

judgeTier(timeDiff) ==
    IF timeDiff <= JUDGMENT_WINDOWS.PERFECT THEN "PERFECT"
    ELSE IF timeDiff <= JUDGMENT_WINDOWS.GREAT THEN "GREAT"
    ELSE IF timeDiff <= JUDGMENT_WINDOWS.GOOD THEN "GOOD"
    ELSE IF timeDiff <= JUDGMENT_WINDOWS.MISS THEN "MISS"
    ELSE null

(* Note.judge marking the note Missed when the tier is Miss.               *)
Note_judge_missOnMissTier(n, currentTime) ==
    IF n.isHit \/ n.isMissed THEN [note |-> n, judgment |-> null]
    ELSE LET judgment == judgeTier(Abs(n.hitTime - currentTime))
         IN  [note |-> IF judgment = "MISS" THEN Note_miss(n)
                       ELSE IF judgment # null THEN Note_hit(n, judgment) ELSE n,
              judgment |-> judgment]

Note_judge(n, currentTime) ==
    IF n.isHit \/ n.isMissed THEN [note |-> n, judgment |-> null]
    ELSE LET judgment == judgeTier(Abs(n.hitTime - currentTime))
         IN  [note |-> IF judgment # null THEN Note_hit(n, judgment) ELSE n,
              judgment |-> judgment]

-----------------------------------------------------------------------------
(* NoteManager                                                             *)

NewNoteManager ==
    [notes |-> <<>>, activeNotes |-> <<>>, chart |-> <<>>, chartIndex |-> 0,
     score |-> 0, combo |-> 0, maxCombo |-> 0,
     judgmentCounts |-> [PERFECT |-> 0, GREAT |-> 0, GOOD |-> 0, MISS |-> 0]]

(* Array.prototype.sort with (a, b) => a.time - b.time: a stable sort,     *)
(* here by insertion of each entry after the entries not later than it.    *)
RECURSIVE insertByTime(_, _)
insertByTime(sorted, e) ==
    IF sorted = <<>> THEN <<e>>
    ELSE IF sorted[Len(sorted)].time <= e.time THEN Append(sorted, e)
    ELSE Append(insertByTime(SubSeq(sorted, 1, Len(sorted) - 1), e),
                sorted[Len(sorted)])

RECURSIVE sortByTime(_)
sortByTime(c) ==
    IF c = <<>> THEN <<>>
    ELSE insertByTime(sortByTime(SubSeq(c, 1, Len(c) - 1)), c[Len(c)])

loadChart(nm, c) == [nm EXCEPT !.chart = sortByTime(c), !.chartIndex = 0]

(* addJudgment comparing the combo with maxCombo before incrementing it.   *)
addJudgment_staleMaxCombo(nm, judgment) ==
    [nm EXCEPT !.judgmentCounts[judgment] = @ + 1,
               !.score = @ + JUDGMENT_SCORES[judgment],
               !.combo = IF judgment = "MISS" THEN 0 ELSE @ + 1,
               !.maxCombo = IF judgment # "MISS" /\ nm.combo > @
                            THEN nm.combo ELSE @]

addJudgment(nm, judgment) ==
    [nm EXCEPT !.judgmentCounts[judgment] = @ + 1,
               !.score = @ + JUDGMENT_SCORES[judgment],
               !.combo = IF judgment = "MISS" THEN 0 ELSE @ + 1,
               !.maxCombo = IF judgment # "MISS" /\ nm.combo + 1 > @
                            THEN nm.combo + 1 ELSE @]

(* spawnNotes with the loop bound one short: the last entry never spawns.  *)
RECURSIVE spawnNotes_skipLast(_, _)
spawnNotes_skipLast(nm, currentTime) ==
    IF nm.chartIndex < Len(nm.chart) - 1
    THEN LET noteData == nm.chart[nm.chartIndex + 1]
         IN  IF noteData.time <= currentTime + spawnTime
             THEN spawnNotes_skipLast(
                     [nm EXCEPT !.notes = Append(@, Note(noteData.track, noteData.time)),
                                !.activeNotes = Append(@, Len(nm.notes) + 1),
                                !.chartIndex = @ + 1],
                     currentTime)
             ELSE nm
    ELSE nm

(* spawnNotes with the look-ahead bound exclusive.                         *)
RECURSIVE spawnNotes_exclusive(_, _)
spawnNotes_exclusive(nm, currentTime) ==
    IF nm.chartIndex < Len(nm.chart)
    THEN LET noteData == nm.chart[nm.chartIndex + 1]
         IN  IF noteData.time < currentTime + spawnTime
             THEN spawnNotes_exclusive(
                     [nm EXCEPT !.notes = Append(@, Note(noteData.track, noteData.time)),
                                !.activeNotes = Append(@, Len(nm.notes) + 1),
                                !.chartIndex = @ + 1],
                     currentTime)
             ELSE nm
    ELSE nm

RECURSIVE spawnNotes(_, _)
spawnNotes(nm, currentTime) ==
    IF nm.chartIndex < Len(nm.chart)
    THEN LET noteData == nm.chart[nm.chartIndex + 1]
         IN  IF noteData.time <= currentTime + spawnTime
             THEN spawnNotes(
                     [nm EXCEPT !.notes = Append(@, Note(noteData.track, noteData.time)),
                                !.activeNotes = Append(@, Len(nm.notes) + 1),
                                !.chartIndex = @ + 1],
                     currentTime)
             ELSE nm
    ELSE nm

(* activeNotes.forEach(note => note.update(currentTime, deltaTime))        *)
updateActiveNotes(nm, currentTime) ==
    [nm EXCEPT !.notes =
        [i \in DOMAIN nm.notes |->
            IF \E k \in DOMAIN nm.activeNotes : nm.activeNotes[k] = i
            THEN Note_update(nm.notes[i], currentTime)
            ELSE nm.notes[i]]]

(* activeNotes.filter(note => !note.isHit && !note.isMissed)               *)
isUnresolved(n) == ~n.isHit /\ ~n.isMissed

filterActiveNotes(nm) ==
    [nm EXCEPT !.activeNotes = SelectSeq(@, LAMBDA i : isUnresolved(nm.notes[i]))]

RECURSIVE checkAutoMissFrom(_, _, _)
checkAutoMissFrom(nm, k, currentTime) ==
    IF k > Len(nm.activeNotes) THEN nm
    ELSE LET i == nm.activeNotes[k]
             note == nm.notes[i]
         IN  IF ~note.isHit /\ ~note.isMissed
                /\ currentTime - note.hitTime > JUDGMENT_WINDOWS.MISS
             THEN checkAutoMissFrom(
                     addJudgment([nm EXCEPT !.notes[i] = Note_miss(note)], "MISS"),
                     k + 1, currentTime)
             ELSE checkAutoMissFrom(nm, k + 1, currentTime)

checkAutoMiss(nm, currentTime) == checkAutoMissFrom(nm, 1, currentTime)

(* NoteManager.update with the steps in another order: the active notes   *)
(* are aged and filtered first, and the chart entries are spawned last.    *)
NoteManager_update_spawnsLast(nm, currentTime) ==
    checkAutoMiss(
        spawnNotes(filterActiveNotes(updateActiveNotes(nm, currentTime)), currentTime),
        currentTime)

NoteManager_update(nm, currentTime) ==
    checkAutoMiss(
        filterActiveNotes(updateActiveNotes(spawnNotes(nm, currentTime), currentTime)),
        currentTime)

(* The forEach of NoteManager.hit: closestNote is 0 while it is null.      *)
(* The search of NoteManager.hit without the comparison against the       *)
(* nearest note so far: every candidate in the window replaces the last.   *)
RECURSIVE closestFrom_anyInWindow(_, _, _, _, _, _)
closestFrom_anyInWindow(nm, track, currentTime, k, closestNote, minTimeDiff) ==
    IF k > Len(nm.activeNotes) THEN closestNote
    ELSE LET i == nm.activeNotes[k]
             note == nm.notes[i]
             timeDiff == Abs(note.hitTime - currentTime)
         IN  IF note.track = track /\ ~note.isHit /\ ~note.isMissed
                /\ timeDiff <= JUDGMENT_WINDOWS.MISS
             THEN closestFrom_anyInWindow(nm, track, currentTime, k + 1, i, timeDiff)
             ELSE closestFrom_anyInWindow(nm, track, currentTime, k + 1,
                                          closestNote, minTimeDiff)

(* The search of NoteManager.hit without the test of the note's track.     *)
RECURSIVE closestFrom_anyLane(_, _, _, _, _, _)
closestFrom_anyLane(nm, track, currentTime, k, closestNote, minTimeDiff) ==
    IF k > Len(nm.activeNotes) THEN closestNote
    ELSE LET i == nm.activeNotes[k]
             note == nm.notes[i]
             timeDiff == Abs(note.hitTime - currentTime)
         IN  IF ~note.isHit /\ ~note.isMissed
                /\ (closestNote = 0 \/ timeDiff < minTimeDiff)
                /\ timeDiff <= JUDGMENT_WINDOWS.MISS
             THEN closestFrom_anyLane(nm, track, currentTime, k + 1, i, timeDiff)
             ELSE closestFrom_anyLane(nm, track, currentTime, k + 1,
                                      closestNote, minTimeDiff)

(* The search of NoteManager.hit with "<=" in the comparison against the   *)
(* nearest note so far: of equally near notes the last one is kept.        *)
RECURSIVE closestFrom_lastOnTies(_, _, _, _, _, _)
closestFrom_lastOnTies(nm, track, currentTime, k, closestNote, minTimeDiff) ==
    IF k > Len(nm.activeNotes) THEN closestNote
    ELSE LET i == nm.activeNotes[k]
             note == nm.notes[i]
             timeDiff == Abs(note.hitTime - currentTime)
         IN  IF note.track = track /\ ~note.isHit /\ ~note.isMissed
                /\ (closestNote = 0 \/ timeDiff <= minTimeDiff)
                /\ timeDiff <= JUDGMENT_WINDOWS.MISS
             THEN closestFrom_lastOnTies(nm, track, currentTime, k + 1, i, timeDiff)
             ELSE closestFrom_lastOnTies(nm, track, currentTime, k + 1,
                                         closestNote, minTimeDiff)

RECURSIVE closestFrom(_, _, _, _, _, _)
closestFrom(nm, track, currentTime, k, closestNote, minTimeDiff) ==
    IF k > Len(nm.activeNotes) THEN closestNote
    ELSE LET i == nm.activeNotes[k]
             note == nm.notes[i]
             timeDiff == Abs(note.hitTime - currentTime)
         IN  IF note.track = track /\ ~note.isHit /\ ~note.isMissed
                /\ (closestNote = 0 \/ timeDiff < minTimeDiff)
                /\ timeDiff <= JUDGMENT_WINDOWS.MISS
             THEN closestFrom(nm, track, currentTime, k + 1, i, timeDiff)
             ELSE closestFrom(nm, track, currentTime, k + 1, closestNote, minTimeDiff)

closestNoteOf(nm, track, currentTime) == closestFrom(nm, track, currentTime, 1, 0, 0)

(* NoteManager.hit counting a press that matches no note as a Miss.        *)
hit_strayPressMisses(nm, track, currentTime) ==
    LET closestNote == closestNoteOf(nm, track, currentTime)
    IN  IF closestNote # 0
        THEN LET r == Note_judge(nm.notes[closestNote], currentTime)
             IN  IF r.judgment # null
                 THEN [nm |-> addJudgment([nm EXCEPT !.notes[closestNote] = r.note],
                                          r.judgment),
                       judgment |-> r.judgment]
                 ELSE [nm |-> nm, judgment |-> null]
        ELSE [nm |-> addJudgment(nm, "MISS"), judgment |-> null]

hit(nm, track, currentTime) ==
    LET closestNote == closestNoteOf(nm, track, currentTime)
    IN  IF closestNote # 0
        THEN LET r == Note_judge(nm.notes[closestNote], currentTime)
             IN  IF r.judgment # null
                 THEN [nm |-> addJudgment([nm EXCEPT !.notes[closestNote] = r.note],
                                          r.judgment),
                       judgment |-> r.judgment]
                 ELSE [nm |-> nm, judgment |-> null]
        ELSE [nm |-> nm, judgment |-> null]

NoteManager_reset(nm) ==
    [NewNoteManager EXCEPT !.chart = nm.chart]

(* A percentage is held in hundredths: 9000 is the number 90 and the       *)
(* string "90.00".                                                         *)
(* toFixed2 with the fraction cut off instead of rounded.                  *)
toFixed2_truncating(num, den) == (num * 100) \div den

(* (num / den).toFixed(2): the two-decimal numeral nearest to num / den,   *)
(* the larger one when two are equally near.                               *)
toFixed2(num, den) == (2 * num * 100 + den) \div (2 * den)

totalJudgments(nm) ==
    nm.judgmentCounts.PERFECT + nm.judgmentCounts.GREAT
        + nm.judgmentCounts.GOOD + nm.judgmentCounts.MISS

calculateAccuracy(nm) ==
    LET total == totalJudgments(nm)
        weighted == nm.judgmentCounts.PERFECT * 100
                        + nm.judgmentCounts.GREAT * 80
                        + nm.judgmentCounts.GOOD * 50
    IN  IF total = 0 THEN 100 * 100
        ELSE toFixed2(weighted * 100, total * 100)

-----------------------------------------------------------------------------
(* Conductor                                                               *)

noTimestamp == -1

NewConductor ==
    [currentTime |-> 0, isRunning |-> FALSE, timeOffset |-> 0,
     performanceStartTime |-> noTimestamp, pausedTime |-> 0]

(* Conductor.start that re-anchors without taking up the saved time.       *)
Conductor_start_dropsSaved(c, performanceNow) ==
    IF c.isRunning THEN c
    ELSE [c EXCEPT !.pausedTime = 0,
                   !.performanceStartTime = performanceNow,
                   !.isRunning = TRUE]

(* Conductor.start without the guard on isRunning.                         *)
Conductor_start_unguarded(c, performanceNow) ==
    [c EXCEPT !.timeOffset = IF c.pausedTime > 0 THEN c.pausedTime ELSE @,
              !.pausedTime = 0,
              !.performanceStartTime = performanceNow,
              !.isRunning = TRUE]

(* performanceNow is the value performance.now() returns during the call.  *)
Conductor_start(c, performanceNow) ==
    IF c.isRunning THEN c
    ELSE [c EXCEPT !.timeOffset = IF c.pausedTime > 0 THEN c.pausedTime ELSE @,
                   !.pausedTime = 0,
                   !.performanceStartTime = performanceNow,
                   !.isRunning = TRUE]

Conductor_pause(c) ==
    IF ~c.isRunning THEN c
    ELSE [c EXCEPT !.pausedTime = c.currentTime, !.isRunning = FALSE]

Conductor_reset(c) == NewConductor

(* Conductor.update that forgets the offset accumulated before a pause.    *)
Conductor_update_noOffset(c, timestamp) ==
    IF ~c.isRunning THEN c
    ELSE LET elapsedMs == timestamp - c.performanceStartTime
         IN  [c EXCEPT !.currentTime = elapsedMs]

Conductor_update(c, timestamp) ==
    IF ~c.isRunning THEN c
    ELSE LET elapsedMs == timestamp - c.performanceStartTime
         IN  [c EXCEPT !.currentTime = elapsedMs + c.timeOffset]

getCurrentTime(c) == c.currentTime

(* Conductor.seekTo that leaves currentTime to the next update.            *)
Conductor_seekTo_deferred(c, time, performanceNow) ==
    [c EXCEPT !.timeOffset = time,
              !.performanceStartTime = performanceNow]

(* Conductor.seekTo that leaves the anchor of the clock where it was.      *)
Conductor_seekTo_keepsAnchor(c, time, performanceNow) ==
    [c EXCEPT !.timeOffset = time,
              !.currentTime = time]

(* performanceNow is the value performance.now() returns during the call.  *)
Conductor_seekTo(c, time, performanceNow) ==
    [c EXCEPT !.timeOffset = time,
              !.performanceStartTime = performanceNow,
              !.currentTime = time]

-----------------------------------------------------------------------------
(* Game                                                                    *)

NewGame == [isRunning |-> FALSE, isReady |-> FALSE, hasMusic |-> FALSE]

(* The conductor part of the callback Game.resume hands to                 *)
(* requestAnimationFrame: the clock is anchored at the frame's timestamp.  *)
resumeConductor(c, timestamp) ==
    [c EXCEPT !.performanceStartTime = timestamp,
              !.isRunning = TRUE,
              !.timeOffset = IF c.pausedTime > 0 THEN c.pausedTime ELSE @,
              !.pausedTime = 0]

(* AudioManager: isPlaying is its own flag; paused and ended are the       *)
(* attributes of its audio element.                                        *)
NewAudioManager == [isPlaying |-> FALSE, paused |-> TRUE, ended |-> FALSE]

(* audioManager.play() up to its await: audioElement.play() starts the     *)
(* element, from the beginning when it had ended.                          *)
AudioManager_play(a) == [a EXCEPT !.paused = FALSE, !.ended = FALSE]

(* audioManager.play() after its await: the flag is set when the element's *)
(* promise was fulfilled; a pause of the element in between rejects it.    *)
AudioManager_played(a) == IF a.paused THEN a ELSE [a EXCEPT !.isPlaying = TRUE]

AudioManager_pause(a) ==
    IF a.isPlaying THEN [a EXCEPT !.paused = TRUE, !.isPlaying = FALSE] ELSE a

AudioManager_stop(a) == [isPlaying |-> FALSE, paused |-> TRUE, ended |-> FALSE]

isEnded(a) == a.ended

(* What one operation did, for stating properties of single operations:    *)
(* op names the operation, track and judgment are the argument and the     *)
(* return value of a hit, resolved is the note the hit resolved (0: none)  *)
(* timedOut counts the notes that went from Pending to Missed and spawned  *)
(* is the set of the notes the operation created.                          *)
Last(op, track, judgment, resolved, timedOut, spawned) ==
    [op |-> op, track |-> track, judgment |-> judgment,
     resolved |-> resolved, timedOut |-> timedOut, spawned |-> spawned]

spawnedBy(before, after) ==
    {i \in DOMAIN after.notes : i \notin DOMAIN before.notes}

newlyMissed(before, after) ==
    Cardinality({i \in DOMAIN after.notes :
        /\ after.notes[i].isMissed
        /\ ~(i \in DOMAIN before.notes /\ before.notes[i].isMissed)})

newlyHit(before, after) ==
    LET changed == {i \in DOMAIN after.notes :
                       i \in DOMAIN before.notes
                       /\ after.notes[i].isHit /\ ~before.notes[i].isHit}
    IN  IF changed = {} THEN 0 ELSE CHOOSE i \in changed : TRUE

RECURSIVE SeqsUpTo(_, _)
SeqsUpTo(S, n) ==
    IF n = 0 THEN {<<>>}
    ELSE LET shorter == SeqsUpTo(S, n - 1)
         IN  shorter \cup {Append(q, e) : q \in shorter, e \in S}

Charts == SeqsUpTo(ChartEntries, MaxChartLen)

(* Game.update(timestamp): the clock, then the note system.                *)
Game_update(timestamp) ==
    LET c == Conductor_update(conductor, timestamp)
    IN  /\ conductor' = c
        /\ noteManager' = NoteManager_update(noteManager, getCurrentTime(c))

Init ==
    /\ now = StartNow
    /\ conductor = NewConductor
    /\ noteManager = NewNoteManager
    /\ game = NewGame
    /\ last = Last("init", -1, null, 0, 0, {})
    /\ raf = <<>>
    /\ audio = NewAudioManager
    /\ awaiting = <<>>

(* The chart is loaded and the game started: loadChart, Game.startGame     *)
(* (conductor.start), Game.start and its first gameLoop(performance.now()).*)
(* The chart supplier may hand loadChart any sequence of entries.          *)
StartGame(c) ==
    /\ ~game.isReady
    /\ ~game.isRunning
    /\ LET cond == Conductor_update(Conductor_start(conductor, now), now)
           loaded == loadChart(noteManager, c)
       IN  /\ conductor' = cond
           /\ noteManager' = NoteManager_update(loaded, getCurrentTime(cond))
           /\ last' = Last("start", -1, null, 0, newlyMissed(loaded, noteManager'),
                           spawnedBy(loaded, noteManager'))
    /\ game' = [game EXCEPT !.isReady = TRUE, !.isRunning = TRUE]
    /\ raf' = Append(raf, "gameLoop")
    /\ UNCHANGED <<now, audio, awaiting>>

(* One animation frame of a game without music that was never paused: the *)
(* one pending callback is gameLoop, which updates and registers itself    *)
(* again.                                                                  *)
Frame(dt) ==
    /\ game.isRunning
    /\ raf = <<"gameLoop">>
    /\ now + dt <= MaxNow
    /\ now' = now + dt
    /\ Game_update(now')
    /\ last' = Last("tick", -1, null, 0, newlyMissed(noteManager, noteManager'),
                    spawnedBy(noteManager, noteManager'))
    /\ UNCHANGED <<game, raf, audio, awaiting>>

(* A lane press: Game.handleTrackHit(trackIndex).                          *)
HandleTrackHit(trackIndex) ==
    LET r == hit(noteManager, trackIndex, getCurrentTime(conductor))
    IN  /\ noteManager' = r.nm
        /\ last' = Last("hit", trackIndex, r.judgment, newlyHit(noteManager, r.nm),
                        newlyMissed(noteManager, r.nm),
                        spawnedBy(noteManager, r.nm))
        /\ UNCHANGED <<now, conductor, game, raf, audio, awaiting>>

Next ==
    \/ \E c \in Charts : StartGame(c)
    \/ \E dt \in FrameDeltas : Frame(dt)
    \/ \E trackIndex \in Tracks : HandleTrackHit(trackIndex)

Spec == Init /\ [][Next]_vars

-----------------------------------------------------------------------------
(* Properties                                                              *)

nmNotes == noteManager.notes

clock == getCurrentTime(conductor)

isPending(n) == ~n.isHit /\ ~n.isMissed

isActive(nm, i) == \E k \in DOMAIN nm.activeNotes : nm.activeNotes[k] = i

isTick(op) == op \in {"tick", "start"}

(* C1: a tick in which notes time out counts one Miss judgment per         *)
(* timed-out note: counts[MISS] grows by the number of notes the tick      *)
(* moved from Pending to Missed.                                           *)
C1_TimeoutCountsMiss ==
    [][isTick(last'.op) =>
        noteManager'.judgmentCounts.MISS
            = noteManager.judgmentCounts.MISS + last'.timedOut]_vars

(* C2: every Miss, from a note timing out in a tick or from a mistimed     *)
(* press judged by hit, leaves combo = 0 and maxCombo unchanged.           *)
C2_MissResetsCombo ==
    [][(\/ isTick(last'.op) /\ last'.timedOut > 0
        \/ last'.op = "hit" /\ last'.judgment = "MISS")
       => /\ noteManager'.combo = 0
          /\ noteManager'.maxCombo = noteManager.maxCombo]_vars

(* C3: a tick at clock time t marks a note that no hit resolved as Missed  *)
(* exactly when t - targetTime > 0.200 s: never while t - T <= 0.200 s,    *)
(* and at the first tick with t - T > 0.200 s.                             *)
C3_MissedExactlyPastWindow ==
    [][isTick(last'.op) =>
        \A i \in DOMAIN noteManager'.notes :
            LET n == noteManager'.notes[i]
                pendingBefore == i \in DOMAIN nmNotes => isPending(nmNotes[i])
            IN  pendingBefore =>
                    /\ ~n.isHit
                    /\ n.isMissed <=> (clock' - n.hitTime > 200)]_vars

(* A tick that times a note out while another note, exactly 0.200 s past   *)
(* its target, stays Pending.                                              *)
C3_Witness ==
    /\ last.op = "tick"
    /\ last.timedOut > 0
    /\ \E i \in DOMAIN nmNotes : nmNotes[i].isMissed
    /\ \E j \in DOMAIN nmNotes :
          isPending(nmNotes[j]) /\ clock - nmNotes[j].hitTime = 200

(* The frame loop keeps running: a scheduled animation frame is delivered. *)
FairSpec == Spec /\ WF_vars(\E dt \in FrameDeltas : Frame(dt))

allSpawned == noteManager.chartIndex = Len(noteManager.chart)

allResolved == \A i \in DOMAIN nmNotes : ~isPending(nmNotes[i])

(* C4: while ticks keep arriving, every chart entry is eventually spawned  *)
(* and every spawned note eventually leaves Pending, with or without hits. *)
C4_EveryNoteResolves == game.isRunning ~> (allSpawned /\ allResolved)

(* Every entry of a two-note chart spawned and both notes resolved by      *)
(* timeout, none by a hit.                                                 *)
C4_Witness ==
    /\ Len(noteManager.chart) = 2
    /\ allSpawned /\ allResolved
    /\ \A i \in DOMAIN nmNotes : nmNotes[i].isMissed

Judgments == {"PERFECT", "GREAT", "GOOD", "MISS"}

timeError(n, t) == Abs(n.hitTime - t)

(* The Pending notes of the active set on a lane, and those of them within *)
(* the Miss window of time t.                                              *)
pendingOnLane(nm, lane) ==
    {i \in DOMAIN nm.notes :
        isActive(nm, i) /\ isPending(nm.notes[i]) /\ nm.notes[i].track = lane}

candidates(nm, lane, t) ==
    {i \in pendingOnLane(nm, lane) : timeError(nm.notes[i], t) <= 200}

changedNotes(before, after) ==
    {i \in DOMAIN after.notes :
        i \notin DOMAIN before.notes \/ after.notes[i] # before.notes[i]}

expectedTier(e) ==
    CASE e <= 50 -> "PERFECT"
      [] 50 < e /\ e <= 100 -> "GREAT"
      [] 100 < e /\ e <= 150 -> "GOOD"
      [] 150 < e /\ e <= 200 -> "MISS"
      [] OTHER -> null

(* C5: hit(lane, t) resolves a note only if it is Pending, active, on the  *)
(* lane and within 0.200 s of t, and no Pending active note of the lane is *)
(* strictly nearer to t; when such a candidate exists, hit resolves        *)
(* exactly one note and returns a tier.                                    *)
C5_HitResolvesNearestCandidate ==
    [][last'.op = "hit" =>
        LET lane == last'.track
            changed == changedNotes(noteManager, noteManager')
        IN  /\ changed \subseteq candidates(noteManager, lane, clock)
            /\ \A i \in changed : \A j \in pendingOnLane(noteManager, lane) :
                  timeError(nmNotes[j], clock) >= timeError(nmNotes[i], clock)
            /\ candidates(noteManager, lane, clock) # {} =>
                  /\ Cardinality(changed) = 1
                  /\ last'.judgment \in Judgments]_vars

(* A hit that resolved the second note of its lane although the first,     *)
(* farther from the press, was a candidate too.                            *)
C5_Witness ==
    /\ last.op = "hit"
    /\ last.resolved = 2
    /\ Len(nmNotes) = 2
    /\ 1 \in pendingOnLane(noteManager, last.track)
    /\ timeError(nmNotes[1], clock) <= 200
    /\ timeError(nmNotes[2], clock) < timeError(nmNotes[1], clock)

tierValue(X) ==
    CASE X = "PERFECT" -> 100 [] X = "GREAT" -> 80 [] X = "GOOD" -> 50 [] X = "MISS" -> 0

Max(a, b) == IF a >= b THEN a ELSE b

(* C8: a hit that returns tier X adds 1 to counts[X] and the value of X    *)
(* (100, 80, 50, 0) to score, changes no other count, and for X other than *)
(* Miss adds 1 to combo and sets maxCombo to max(old maxCombo, new combo); *)
(* a press 0.03 s off target is Perfect: +100 score, +1 combo.             *)
C8_HitUpdatesStats ==
    [][(last'.op = "hit" /\ last'.judgment # null) =>
        LET X == last'.judgment
            old == noteManager
            new == noteManager'
        IN  /\ new.judgmentCounts[X] = old.judgmentCounts[X] + 1
            /\ \A Y \in Judgments \ {X} : new.judgmentCounts[Y] = old.judgmentCounts[Y]
            /\ new.score = old.score + tierValue(X)
            /\ X # "MISS" =>
                  /\ new.combo = old.combo + 1
                  /\ new.maxCombo = Max(old.maxCombo, new.combo)
            /\ \A i \in changedNotes(old, new) :
                  timeError(old.notes[i], clock) = 30 =>
                      /\ X = "PERFECT"
                      /\ new.score = old.score + 100
                      /\ new.combo = old.combo + 1]_vars

(* A Perfect for a press 0.03 s off target, the second of a combo.         *)
C8_Witness ==
    /\ last.op = "hit"
    /\ last.judgment = "PERFECT"
    /\ last.resolved # 0
    /\ timeError(nmNotes[last.resolved], clock) = 30
    /\ noteManager.combo = 2
    /\ noteManager.maxCombo = 2
    /\ noteManager.score = 200

(* C9: hit(lane, t) with no Pending active note of the lane within 0.200 s *)
(* of t returns no judgment and changes neither the statistics nor any     *)
(* note.                                                                   *)
C9_NoCandidateNoEffect ==
    [][(last'.op = "hit" /\ candidates(noteManager, last'.track, clock) = {}) =>
        /\ last'.judgment = null
        /\ noteManager' = noteManager]_vars

(* A press that matched nothing on a lane whose active notes are one       *)
(* already Hit and one Pending outside the Miss window.                    *)
C9_Witness ==
    /\ last.op = "hit"
    /\ last.judgment = null
    /\ \E i \in DOMAIN nmNotes :
          isActive(noteManager, i) /\ nmNotes[i].track = last.track /\ nmNotes[i].isHit
    /\ \E j \in pendingOnLane(noteManager, last.track) :
          timeError(nmNotes[j], clock) > 200

isIncreasing(q) == \A a, b \in DOMAIN q : a < b => q[a] < q[b]

(* C10: after every tick at clock time t the notes spawned so far are      *)
(* exactly the chart entries with targetTime <= t + 2.0 s, one note per    *)
(* entry and in chart order; between loads the chart index never           *)
(* decreases.                                                              *)
C10_SpawnedExactlyDueEntries ==
    [][/\ isTick(last'.op) =>
            LET nm == noteManager'
                due == {i \in DOMAIN nm.chart : nm.chart[i].time <= clock' + 2000}
            IN  /\ due = 1..nm.chartIndex
                /\ Len(nm.notes) = nm.chartIndex
                /\ \A i \in due :
                      /\ nm.notes[i].track = nm.chart[i].track
                      /\ nm.notes[i].hitTime = nm.chart[i].time
                /\ isIncreasing(nm.activeNotes)
       /\ last'.op # "start" =>
            /\ noteManager'.chart = noteManager.chart
            /\ noteManager'.chartIndex >= noteManager.chartIndex]_vars

(* A tick that spawned the first entry exactly 2.0 s ahead of its target   *)
(* and left the later entry of the chart unspawned.                        *)
C10_Witness ==
    /\ last.op = "tick"
    /\ noteManager.chartIndex = 1
    /\ Len(noteManager.chart) = 2
    /\ noteManager.chart[1].time = clock + 2000
    /\ Len(nmNotes) = 1

-----------------------------------------------------------------------------
(* The chart [(0, 3.0), (1, 3.0), (0, 5.0)] played tick by tick            *)

ScenarioChart ==
    <<[track |-> 0, time |-> 3000], [track |-> 1, time |-> 3000],
      [track |-> 0, time |-> 5000]>>

ScenarioHorizon == 3020

ScenarioDeltas == {10, 990, 2010}

(* One animation frame of the scenario: gameLoop(timestamp) as in Frame,   *)
(* up to ScenarioHorizon milliseconds after the start.                     *)
ScenarioFrame(dt) ==
    /\ game.isRunning
    /\ raf = <<"gameLoop">>
    /\ (now + dt) - StartNow <= ScenarioHorizon
    /\ now' = now + dt
    /\ Game_update(now')
    /\ last' = Last("tick", -1, null, 0, newlyMissed(noteManager, noteManager'),
                    spawnedBy(noteManager, noteManager'))
    /\ UNCHANGED <<game, raf, audio, awaiting>>

ScenarioNext ==
    \/ StartGame(ScenarioChart)
    \/ \E dt \in ScenarioDeltas : ScenarioFrame(dt)
    \/ \E trackIndex \in Tracks : HandleTrackHit(trackIndex)

ScenarioSpec == Init /\ [][ScenarioNext]_vars

(* The notes spawned so far are exactly the two entries with time 3.0.     *)
bothThreesSpawned(nm) ==
    /\ Len(nm.notes) = 2
    /\ \A i \in 1..2 : nm.notes[i].hitTime = 3000
    /\ {nm.notes[i].track : i \in 1..2} = {0, 1}
    /\ nm.chartIndex = 2

(* A press on lane 0 at 3.02 while the lane-0 note of 3.0 is still Pending.*)
firstPressAt3020 ==
    /\ last'.op = "hit"
    /\ last'.track = 0
    /\ clock = 3020
    /\ Len(nmNotes) >= 1
    /\ isPending(nmNotes[1])

(* C11, as stated: after the tick at 1.0 no note is spawned; after the     *)
(* tick at 1.01 both notes of 3.0 are spawned and the note of 5.0 is not;  *)
(* the press on lane 0 at 3.02 is judged Perfect.                          *)
C11_ScenarioAsStated ==
    [][/\ (isTick(last'.op) /\ clock' = 1000 => Len(nmNotes') = 0)
       /\ (isTick(last'.op) /\ clock' = 1010 => bothThreesSpawned(noteManager'))
       /\ (firstPressAt3020 => last'.judgment = "PERFECT")]_vars

(* C11, amended: after a tick before 1.0 (0.99) no note is spawned; after  *)
(* the tick at 1.0, and after the tick at 1.01, both notes of 3.0 are      *)
(* spawned and the note of 5.0 is not; the press on lane 0 at 3.02 is      *)
(* judged Perfect and resolves the lane-0 note of 3.0.                     *)
C11_ScenarioInclusive ==
    [][/\ (isTick(last'.op) /\ clock' < 1000 => Len(nmNotes') = 0)
       /\ (isTick(last'.op) /\ clock' \in {1000, 1010}
             => bothThreesSpawned(noteManager'))
       /\ (firstPressAt3020 => last'.judgment = "PERFECT" /\ last'.resolved = 1)]_vars

(* The tick at exactly 1.0 has spawned both notes of 3.0.                  *)
C11_Witness ==
    /\ last.op = "tick"
    /\ clock = 1000
    /\ bothThreesSpawned(noteManager)

-----------------------------------------------------------------------------
(* The clock alone: a Conductor driven through start, pause, reset,        *)
(* update and seekTo, and resumed the way Game.resume resumes it after a   *)
(* pause.  One time source stands for performance.now() and the frame      *)
(* timestamps.                                                             *)

ClockHorizon == 1000

MaxSeeks == 2

ClockDeltas == {100, 250}

SeekTimes == {0, 400}

(* op names the operation, time is the argument of seekTo, seeks counts    *)
(* the seekTo and reset calls, pausedSeek tells that a seekTo found the    *)
(* clock paused, frozen holds the value of getCurrentTime() when the clock *)
(* was last paused (empty: never, or a seekTo or reset came after), seek   *)
(* holds the target and the instant of the last seekTo if it found the     *)
(* clock running and no pause or reset came after (empty otherwise),       *)
(* pausedTarget holds the target of the last seekTo if it found the clock  *)
(* paused and the clock has not been updated while running since.          *)
ClockLast(op, time, seeks, pausedSeek, frozen, seek, pausedTarget) ==
    [op |-> op, time |-> time, seeks |-> seeks, pausedSeek |-> pausedSeek,
     frozen |-> frozen, seek |-> seek, pausedTarget |-> pausedTarget]

ClockInit ==
    /\ now = StartNow
    /\ conductor = NewConductor
    /\ noteManager = NewNoteManager
    /\ game = NewGame
    /\ last = ClockLast("init", -1, 0, FALSE, {}, {}, {})
    /\ raf = <<>>
    /\ audio = NewAudioManager
    /\ awaiting = <<>>

clockOnly == <<noteManager, game, raf, audio, awaiting>>

(* conductor.start()                                                       *)
ClockStart ==
    /\ conductor' = Conductor_start(conductor, now)
    /\ last' = [last EXCEPT !.op = "start", !.time = -1]
    /\ UNCHANGED <<now, clockOnly>>

(* conductor.pause()                                                       *)
ClockPause ==
    /\ conductor' = Conductor_pause(conductor)
    /\ last' = [last EXCEPT !.op = "pause", !.time = -1, !.seek = {},
                            !.pausedTarget = IF conductor.isRunning THEN {} ELSE @,
                            !.frozen = IF conductor.isRunning
                                       THEN {getCurrentTime(conductor)} ELSE @]
    /\ UNCHANGED <<now, clockOnly>>

(* conductor.reset()                                                       *)
ClockReset ==
    /\ last.seeks < MaxSeeks
    /\ conductor' = Conductor_reset(conductor)
    /\ last' = ClockLast("reset", -1, last.seeks + 1, FALSE, {}, {}, {})
    /\ UNCHANGED <<now, clockOnly>>

(* conductor.update(timestamp) with a timestamp later than every earlier   *)
(* one.                                                                    *)
ClockUpdate(dt) ==
    /\ (now + dt) - StartNow <= ClockHorizon
    /\ now' = now + dt
    /\ conductor' = Conductor_update(conductor, now')
    /\ last' = [last EXCEPT !.op = "update", !.time = -1,
                            !.pausedTarget = IF conductor.isRunning THEN {} ELSE @]
    /\ UNCHANGED clockOnly

(* The frame callback of Game.resume on a paused clock: the clock is       *)
(* anchored at the timestamp, then gameLoop(timestamp) updates it.         *)
ClockResume(dt) ==
    /\ ~conductor.isRunning
    /\ (now + dt) - StartNow <= ClockHorizon
    /\ now' = now + dt
    /\ conductor' = Conductor_update(resumeConductor(conductor, now'), now')
    /\ last' = [last EXCEPT !.op = "resume", !.time = -1, !.pausedTarget = {}]
    /\ UNCHANGED clockOnly

(* conductor.seekTo(time)                                                  *)
ClockSeekTo(time) ==
    /\ last.seeks < MaxSeeks
    /\ conductor' = Conductor_seekTo(conductor, time, now)
    /\ last' = ClockLast("seekTo", time, last.seeks + 1,
                         last.pausedSeek \/ ~conductor.isRunning, {},
                         IF conductor.isRunning
                         THEN {[time |-> time, at |-> now]} ELSE {},
                         IF conductor.isRunning THEN {} ELSE {time})
    /\ UNCHANGED <<now, clockOnly>>

ClockNext ==
    \/ ClockStart
    \/ ClockPause
    \/ ClockReset
    \/ \E dt \in ClockDeltas : ClockUpdate(dt)
    \/ \E dt \in ClockDeltas : ClockResume(dt)
    \/ \E time \in SeekTimes : ClockSeekTo(time)

ClockSpec == ClockInit /\ [][ClockNext]_vars

C13_FrozenThenContinues ==
    ~last.pausedSeek =>
        \A frozen \in last.frozen :
            IF conductor.isRunning
            THEN clock = frozen + (now - conductor.performanceStartTime)
            ELSE clock = frozen

(* An update while the clock runs again, some time after the anchor taken  *)
(* by the start or resume that followed a pause at a positive time.        *)
C13_Witness ==
    /\ last.op = "update"
    /\ conductor.isRunning
    /\ now > conductor.performanceStartTime
    /\ \E frozen \in last.frozen :
          frozen > 0 /\ clock = frozen + (now - conductor.performanceStartTime)

(* C14: right after seekTo(time), getCurrentTime() is time, whether the    *)
(* clock runs or is paused.                                                *)
C14_SeekIsImmediate ==
    [][last'.op = "seekTo" => clock' = last'.time]_vars

(* A seekTo on a paused clock moved getCurrentTime() to its argument.      *)
C14_Witness ==
    /\ last.op = "seekTo"
    /\ ~conductor.isRunning
    /\ conductor.pausedTime > 0
    /\ clock = last.time
    /\ clock # conductor.pausedTime

(* C16: start() on a running clock and pause() on a clock that is not      *)
(* running change nothing of the clock.                                    *)
C16_DoubleStartPauseNoOp ==
    [][/\ (last'.op = "start" /\ conductor.isRunning => conductor' = conductor)
       /\ (last'.op = "pause" /\ ~conductor.isRunning => conductor' = conductor)]_vars

(* A start() that left an earlier anchor and a running clock untouched.    *)
C16_Witness ==
    /\ last.op = "start"
    /\ conductor.isRunning
    /\ conductor.performanceStartTime < now
    /\ clock > conductor.timeOffset

-----------------------------------------------------------------------------
(* The statistics alone: judgments are recorded one by one, the accuracy   *)
(* is read in between, and the note manager is reset at any moment.        *)

MaxJudgments == 4

StatsLast(op, accuracy) == [op |-> op, accuracy |-> accuracy]

StatsInit ==
    /\ now = StartNow
    /\ conductor = NewConductor
    /\ noteManager = NewNoteManager
    /\ game = NewGame
    /\ last = StatsLast("init", -1)
    /\ raf = <<>>
    /\ audio = NewAudioManager
    /\ awaiting = <<>>

statsOnly == <<now, conductor, game, raf, audio, awaiting>>

(* noteManager.addJudgment(judgment), as hit and checkAutoMiss call it.    *)
StatsAddJudgment(judgment) ==
    /\ totalJudgments(noteManager) < MaxJudgments
    /\ noteManager' = addJudgment(noteManager, judgment)
    /\ last' = StatsLast("addJudgment", -1)
    /\ UNCHANGED statsOnly

(* noteManager.getStats().accuracy                                         *)
StatsGetStats ==
    /\ last' = StatsLast("getStats", calculateAccuracy(noteManager))
    /\ UNCHANGED <<noteManager, statsOnly>>

(* noteManager.reset()                                                     *)
StatsReset ==
    /\ noteManager' = NoteManager_reset(noteManager)
    /\ last' = StatsLast("reset", -1)
    /\ UNCHANGED statsOnly

StatsNext ==
    \/ \E judgment \in Judgments : StatsAddJudgment(judgment)
    \/ StatsGetStats
    \/ StatsReset

StatsSpec == StatsInit /\ [][StatsNext]_vars

weightedCounts(nm) ==
    100 * nm.judgmentCounts.PERFECT + 80 * nm.judgmentCounts.GREAT
        + 50 * nm.judgmentCounts.GOOD

(* The accuracy of the same counts with every other field at its initial   *)
(* value.                                                                  *)
accuracyOfCounts(nm) ==
    calculateAccuracy([NewNoteManager EXCEPT !.judgmentCounts = nm.judgmentCounts])

(* C15, as stated: accuracy is 100 with no judgment and otherwise exactly  *)
(* (100*Perfect + 80*Great + 50*Good) / (100 * total) * 100; it depends on *)
(* the counts only and lies in [0, 100].                                   *)
C15_AccuracyIsTheRatio ==
    last.op = "getStats" =>
        /\ last.accuracy = accuracyOfCounts(noteManager)
        /\ last.accuracy \in 0..(100 * 100)
        /\ IF totalJudgments(noteManager) = 0
           THEN last.accuracy = 100 * 100
           ELSE last.accuracy * (100 * totalJudgments(noteManager))
                    = weightedCounts(noteManager) * 100 * 100

(* C15, amended: accuracy is 100 with no judgment and otherwise the ratio  *)
(* rounded to two decimals (at most half a hundredth away from it), 90.00  *)
(* for one Perfect and one Great; it depends on the counts only and lies   *)
(* in [0, 100].                                                            *)
C15_AccuracyIsTheRoundedRatio ==
    last.op = "getStats" =>
        /\ last.accuracy = accuracyOfCounts(noteManager)
        /\ last.accuracy \in 0..(100 * 100)
        /\ IF totalJudgments(noteManager) = 0
           THEN last.accuracy = 100 * 100
           ELSE 2 * Abs(last.accuracy * (100 * totalJudgments(noteManager))
                            - weightedCounts(noteManager) * 100 * 100)
                    <= 100 * totalJudgments(noteManager)
        /\ (noteManager.judgmentCounts = [PERFECT |-> 1, GREAT |-> 1, GOOD |-> 0, MISS |-> 0]
               => last.accuracy = 9000)

(* One Perfect, one Great and one Good: 76.666... is reported as 76.67.    *)
C15_Witness ==
    /\ last.op = "getStats"
    /\ noteManager.judgmentCounts = [PERFECT |-> 1, GREAT |-> 1, GOOD |-> 1, MISS |-> 0]
    /\ last.accuracy = 7667

-----------------------------------------------------------------------------
(* The session: Game with its key handlers, its frame callbacks and the    *)
(* music.  The handlers and callbacks are computed on a record of the      *)
(* objects they reach: conductor, noteManager, game, audio, the callbacks  *)
(* registered with requestAnimationFrame (raf), and what the step did:     *)
(* ticks counts the calls of Game.update, endSeen tells that one of them   *)
(* found the music ended and pausedAtEnd that the game and the clock were  *)
(* not running when that call returned.                                    *)

Objects(registered) ==
    [conductor |-> conductor, noteManager |-> noteManager, game |-> game,
     audio |-> audio, raf |-> registered,
     ticks |-> 0, endSeen |-> FALSE, pausedAtEnd |-> FALSE]

Game_pause(S) ==
    [S EXCEPT !.game.isRunning = FALSE,
              !.conductor = Conductor_pause(@),
              !.audio = IF S.game.hasMusic THEN AudioManager_pause(@) ELSE @]

onGameEnd(S) == Game_pause(S)

(* Game.update(timestamp) with the end of the music.                       *)
updateGame(S, timestamp) ==
    LET c == Conductor_update(S.conductor, timestamp)
        S1 == [S EXCEPT !.conductor = c,
                        !.noteManager = NoteManager_update(@, getCurrentTime(c)),
                        !.ticks = @ + 1]
    IN  IF S.game.hasMusic /\ isEnded(S.audio)
        THEN LET S2 == onGameEnd(S1)
             IN  [S2 EXCEPT !.endSeen = TRUE,
                            !.pausedAtEnd = ~S2.game.isRunning /\ ~S2.conductor.isRunning]
        ELSE S1

(* Game.gameLoop without the guard on isRunning.                           *)
gameLoop_unguarded(S, timestamp) ==
    [updateGame(S, timestamp) EXCEPT !.raf = Append(@, "gameLoop")]

gameLoop(S, timestamp) ==
    IF ~S.game.isRunning THEN S
    ELSE [updateGame(S, timestamp) EXCEPT !.raf = Append(@, "gameLoop")]

(* The resume callback leaving the anchor of the clock where it was.       *)
resumeCallback_keepsAnchor(S, timestamp) ==
    gameLoop([S EXCEPT !.conductor =
                 [resumeConductor(@, timestamp) EXCEPT
                     !.performanceStartTime = S.conductor.performanceStartTime]],
             timestamp)

(* The callback Game.resume hands to requestAnimationFrame.                *)
resumeCallback(S, timestamp) ==
    gameLoop([S EXCEPT !.conductor = resumeConductor(@, timestamp)], timestamp)

(* The callbacks of one animation frame, in the order of registration.     *)
RECURSIVE runCallbacks(_, _, _)
runCallbacks(S, callbacks, timestamp) ==
    IF callbacks = <<>> THEN S
    ELSE runCallbacks(IF Head(callbacks) = "gameLoop"
                      THEN gameLoop(S, timestamp)
                      ELSE resumeCallback(S, timestamp),
                      Tail(callbacks), timestamp)

Game_start(S, performanceNow) ==
    IF S.game.isRunning THEN S
    ELSE gameLoop([S EXCEPT !.game.isRunning = TRUE], performanceNow)

(* Game.startGame up to "await audioManager.play()".                       *)
startGame(S, performanceNow) ==
    [S EXCEPT !.conductor = Conductor_start(@, performanceNow),
              !.audio = IF S.game.hasMusic THEN AudioManager_play(@) ELSE @]

(* Game.startGame after the await.                                         *)
startGame_continued(S, performanceNow) ==
    Game_start([S EXCEPT !.game.isReady = TRUE,
                         !.audio = IF S.game.hasMusic THEN AudioManager_played(@) ELSE @],
               performanceNow)

(* Game.resume up to "await audioManager.play()".                          *)
resume(S) ==
    [S EXCEPT !.audio = IF S.game.hasMusic THEN AudioManager_play(@) ELSE @]

(* Game.resume after the await.                                            *)
resume_continued(S) ==
    [S EXCEPT !.audio = IF S.game.hasMusic THEN AudioManager_played(@) ELSE @,
              !.game.isRunning = TRUE,
              !.raf = Append(@, "resume")]

(* Game.reset that keeps the statistics.                                   *)
Game_reset_keepsStats(S, chart, performanceNow) ==
    [S EXCEPT !.conductor = Conductor_start(Conductor_reset(@), performanceNow),
              !.noteManager = loadChart([@ EXCEPT !.notes = <<>>, !.activeNotes = <<>>], chart),
              !.audio = IF S.game.hasMusic THEN AudioManager_stop(@) ELSE @]

(* Game.reset; chart is what generateChartFromBPM or generateTestChart     *)
(* produces.                                                               *)
Game_reset(S, chart, performanceNow) ==
    [S EXCEPT !.conductor = Conductor_start(Conductor_reset(@), performanceNow),
              !.noteManager = loadChart(NoteManager_reset(@), chart),
              !.audio = IF S.game.hasMusic THEN AudioManager_stop(@) ELSE @]

Becomes(S) ==
    /\ conductor' = S.conductor
    /\ noteManager' = S.noteManager
    /\ game' = S.game
    /\ audio' = S.audio
    /\ raf' = S.raf

SessionHorizon == 3000

MaxCallbacks == 3

MaxAwaiting == 2

MaxResets == 1

SessionDeltas == {750}

SessionTracks == {0}

SessionCharts ==
    {<<[track |-> 0, time |-> 2100]>>}

(* What one step of the session did.  op names the handler; S is the       *)
(* record it computed (ticks, endSeen, pausedAtEnd); track and judgment    *)
(* are the argument and the result of a lane press; reset holds the        *)
(* objects before Game.reset and as Game.reset left them (null: the step   *)
(* made no reset).  over tells that a tick found the music ended since the *)
(* last reset; resets counts the resets.  frozen holds the clock time at   *)
(* the last Game.pause, by the key or by the end of the music (empty:      *)
(* no pause since the start or the last reset).                            *)
SessionLast(op, S, track, judgment, reset, over, resets) ==
    [op |-> op, ticks |-> S.ticks, endSeen |-> S.endSeen,
     pausedAtEnd |-> S.pausedAtEnd, track |-> track, judgment |-> judgment,
     reset |-> reset, over |-> over, resets |-> resets,
     frozen |-> IF op \in {"init", "reset"} THEN {}
                ELSE IF op = "pause" \/ (op = "frame" /\ S.endSeen)
                     THEN {getCurrentTime(S.conductor)}
                     ELSE last.frozen]

SessionInit ==
    /\ now = StartNow
    /\ conductor = NewConductor
    /\ noteManager = NewNoteManager
    /\ game = NewGame
    /\ raf = <<>>
    /\ audio = NewAudioManager
    /\ awaiting = <<>>
    /\ last = SessionLast("init", Objects(<<>>), -1, null, null, FALSE, 0)

(* The start of the game: the chart is loaded and startGame called, with   *)
(* music (start button, Enter) or without (test mode button).              *)
SessionStart(chart, hasMusic) ==
    /\ ~game.isReady
    /\ ~conductor.isRunning
    /\ awaiting = <<>>
    /\ LET S0 == Objects(raf)
           S1 == startGame([S0 EXCEPT !.game.hasMusic = hasMusic,
                                      !.noteManager = loadChart(@, chart)], now)
           S2 == IF hasMusic THEN S1 ELSE startGame_continued(S1, now)
       IN  /\ Becomes(S2)
           /\ awaiting' = IF hasMusic THEN Append(awaiting, "startGame") ELSE awaiting
           /\ last' = SessionLast("start", S2, -1, null, null, last.over, last.resets)
    /\ UNCHANGED now

(* The promise of the oldest pending audioManager.play() is settled and    *)
(* the async function awaiting it goes on.                                 *)
PlayResolved ==
    /\ awaiting # <<>>
    /\ Len(raf) < MaxCallbacks
    /\ LET S == IF Head(awaiting) = "startGame"
                THEN startGame_continued(Objects(raf), now)
                ELSE resume_continued(Objects(raf))
       IN  /\ Becomes(S)
           /\ last' = SessionLast("played", S, -1, null, null,
                                  last.over \/ S.endSeen, last.resets)
    /\ awaiting' = Tail(awaiting)
    /\ UNCHANGED now

(* One animation frame: every registered callback runs with the frame's    *)
(* timestamp; what they register is left for the next frame.               *)
AnimationFrame(dt) ==
    /\ (now + dt) - StartNow <= SessionHorizon
    /\ now' = now + dt
    /\ LET S == runCallbacks(Objects(<<>>), raf, now')
       IN  /\ Becomes(S)
           /\ last' = SessionLast("frame", S, -1, null, null,
                                  last.over \/ S.endSeen, last.resets)
    /\ UNCHANGED awaiting

(* Space or Escape while the game runs: Game.pause.                        *)
PauseKey ==
    /\ game.isReady
    /\ game.isRunning
    /\ LET S == Game_pause(Objects(raf))
       IN  /\ Becomes(S)
           /\ last' = SessionLast("pause", S, -1, null, null, last.over, last.resets)
    /\ UNCHANGED <<now, awaiting>>

(* Space while the game does not run: Game.resume.                         *)
ResumeKey ==
    /\ game.isReady
    /\ ~game.isRunning
    /\ Len(raf) < MaxCallbacks
    /\ Len(awaiting) < MaxAwaiting
    /\ LET S1 == resume(Objects(raf))
           S2 == IF game.hasMusic THEN S1 ELSE resume_continued(S1)
       IN  /\ Becomes(S2)
           /\ awaiting' = IF game.hasMusic THEN Append(awaiting, "resume") ELSE awaiting
           /\ last' = SessionLast("resume", S2, -1, null, null, last.over, last.resets)
    /\ UNCHANGED now

(* R while the game does not run: Game.reset, then Game.startGame.         *)
KeyR(chart) ==
    /\ game.isReady
    /\ ~game.isRunning
    /\ last.resets < MaxResets
    /\ Len(raf) < MaxCallbacks
    /\ Len(awaiting) < MaxAwaiting
    /\ LET S0 == Objects(raf)
           S1 == Game_reset(S0, chart, now)
           S2 == startGame(S1, now)
           S3 == IF game.hasMusic THEN S2 ELSE startGame_continued(S2, now)
       IN  /\ Becomes(S3)
           /\ awaiting' = IF game.hasMusic THEN Append(awaiting, "startGame") ELSE awaiting
           /\ last' = SessionLast("reset", S3, -1, null,
                                  [before |-> S0, after |-> S1],
                                  S3.endSeen, last.resets + 1)
    /\ UNCHANGED now

(* A lane press: Game.handleTrackHit(trackIndex).                          *)
SessionHit(trackIndex) ==
    LET r == hit(noteManager, trackIndex, getCurrentTime(conductor))
    IN  /\ noteManager' = r.nm
        /\ last' = SessionLast("hit", Objects(raf), trackIndex, r.judgment, null,
                               last.over, last.resets)
        /\ UNCHANGED <<now, conductor, game, raf, audio, awaiting>>

(* The music, playing, reaches its end: the audio element sets ended and   *)
(* paused.                                                                 *)
PlaybackEnds ==
    /\ game.hasMusic
    /\ audio.isPlaying
    /\ ~audio.paused
    /\ ~audio.ended
    /\ audio' = [audio EXCEPT !.ended = TRUE, !.paused = TRUE]
    /\ last' = SessionLast("ended", Objects(raf), -1, null, null, last.over, last.resets)
    /\ UNCHANGED <<now, conductor, noteManager, game, raf, awaiting>>

SessionNext ==
    \/ \E chart \in SessionCharts, hasMusic \in BOOLEAN : SessionStart(chart, hasMusic)
    \/ PlayResolved
    \/ \E dt \in SessionDeltas : AnimationFrame(dt)
    \/ PauseKey
    \/ ResumeKey
    \/ \E chart \in SessionCharts : KeyR(chart)
    \/ \E trackIndex \in SessionTracks : SessionHit(trackIndex)
    \/ PlaybackEnds

SessionSpec == SessionInit /\ [][SessionNext]_vars

statsAreZero(nm) ==
    /\ nm.score = 0
    /\ nm.combo = 0
    /\ nm.maxCombo = 0
    /\ \A judgment \in Judgments : nm.judgmentCounts[judgment] = 0

(* C17: as Game.reset leaves them, whatever the state before, the clock    *)
(* has currentTime 0, timeOffset 0 and no saved pausedTime, no note is     *)
(* active, chartIndex is 0, and score, combo, maxCombo and the four counts *)
(* are 0.                                                                  *)
C17_ResetClearsSession ==
    last.op = "reset" =>
        LET after == last.reset.after
        IN  /\ getCurrentTime(after.conductor) = 0
            /\ after.conductor.timeOffset = 0
            /\ after.conductor.pausedTime = 0
            /\ after.noteManager.activeNotes = <<>>
            /\ after.noteManager.notes = <<>>
            /\ after.noteManager.chartIndex = 0
            /\ statsAreZero(after.noteManager)

(* A reset of a paused game that had a score, a consumed chart entry and a *)
(* saved resume point.                                                     *)
C17_Witness ==
    /\ last.op = "reset"
    /\ last.reset.before.noteManager.score > 0
    /\ last.reset.before.noteManager.chartIndex > 0
    /\ last.reset.before.conductor.pausedTime > 0
    /\ statsAreZero(last.reset.after.noteManager)

(* C18, as stated: the tick that finds the music ended leaves the game and *)
(* the clock not running, and from then on (until a reset) no frame and no *)
(* continued handler runs a tick or changes the notes or the statistics.   *)
C18_EndIsTerminal ==
    [][/\ (last'.endSeen => last'.pausedAtEnd)
       /\ (last.over /\ last'.op \in {"frame", "played"}
             => last'.ticks = 0 /\ noteManager' = noteManager)]_vars

(* C19: Game.pause changes nothing of the note manager (active notes, note *)
(* states, chartIndex, statistics), and a frame that finds the game not    *)
(* running runs no tick and changes nothing of it either.                  *)
C19_PauseKeepsNotes ==
    [][/\ (last'.op = "pause" => noteManager' = noteManager)
       /\ (last'.op = "frame" /\ ~game.isRunning
             => last'.ticks = 0 /\ noteManager' = noteManager)]_vars

(* A frame passed over a paused game that holds a Pending active note.     *)
C19_Witness ==
    /\ last.op = "frame"
    /\ last.ticks = 0
    /\ game.isReady
    /\ ~game.isRunning
    /\ conductor.pausedTime > 0
    /\ noteManager.activeNotes # <<>>
    /\ \A k \in DOMAIN noteManager.activeNotes :
          isPending(nmNotes[noteManager.activeNotes[k]])

(* C20, as stated: whatever pause and resume requests came before, an      *)
(* animation frame runs at most one tick (here: in a game never reset).    *)
C20_OneTickPerFrame ==
    [][last'.op = "frame" /\ last'.resets = 0 => last'.ticks <= 1]_vars

-----------------------------------------------------------------------------
(* The order of the steps within one tick                                   *)

(* C21: within one tick spawning runs before aging: a note spawned by a    *)
(* tick whose target time is already more than 0.200 s in the past at that *)
(* tick is Missed and out of the active set when the tick ends, any other  *)
(* note spawned by the tick ends it Pending and active; and a hit spawns   *)
(* nothing and resolves only notes that a completed tick had spawned.      *)
C21_SpawnBeforeAging ==
    [][/\ isTick(last'.op) =>
            \A i \in spawnedBy(noteManager, noteManager') :
                LET n == noteManager'.notes[i]
                IN  IF clock' - n.hitTime > 200
                    THEN n.isMissed /\ ~n.isHit /\ ~isActive(noteManager', i)
                    ELSE isPending(n) /\ isActive(noteManager', i)
       /\ last'.op = "hit" =>
            /\ last'.spawned = {}
            /\ noteManager'.chartIndex = noteManager.chartIndex
            /\ changedNotes(noteManager, noteManager')
                  \subseteq {i \in DOMAIN nmNotes : isActive(noteManager, i)}]_vars

(* A tick that spawned a note more than 0.200 s late and left it Missed,   *)
(* next to a note it spawned in time.                                      *)
C21_Witness ==
    /\ last.op = "tick"
    /\ last.timedOut > 0
    /\ Len(nmNotes) = 2
    /\ noteManager.judgmentCounts.MISS = 0
    /\ \E i \in last.spawned :
          nmNotes[i].isMissed /\ clock - nmNotes[i].hitTime > 200
    /\ \E j \in last.spawned : isPending(nmNotes[j]) /\ isActive(noteManager, j)

(* C22: Hit and Missed are terminal and exclude each other: no step takes  *)
(* a Hit or a Missed note back to Pending or from one to the other, no     *)
(* note is both; and when a tick ends the active set holds Pending notes   *)
(* only.                                                                    *)
C22_ResolvedIsTerminal ==
    [][/\ \A i \in DOMAIN nmNotes :
            /\ i \in DOMAIN noteManager'.notes
            /\ nmNotes[i].isHit =>
                  noteManager'.notes[i].isHit /\ ~noteManager'.notes[i].isMissed
            /\ nmNotes[i].isMissed =>
                  noteManager'.notes[i].isMissed /\ ~noteManager'.notes[i].isHit
       /\ \A i \in DOMAIN noteManager'.notes :
            ~(noteManager'.notes[i].isHit /\ noteManager'.notes[i].isMissed)
       /\ isTick(last'.op) =>
            \A i \in DOMAIN noteManager'.notes :
                isActive(noteManager', i) => isPending(noteManager'.notes[i])]_vars

(* A tick more than 0.200 s after the target of a note that a press had    *)
(* resolved: the note is still Hit and has left the active set, while a    *)
(* Pending note stays in it.                                               *)
C22_Witness ==
    /\ last.op = "tick"
    /\ \E i \in DOMAIN nmNotes :
          /\ nmNotes[i].isHit /\ ~nmNotes[i].isMissed
          /\ clock - nmNotes[i].hitTime > 200
          /\ ~isActive(noteManager, i)
    /\ \E j \in DOMAIN nmNotes : isPending(nmNotes[j]) /\ isActive(noteManager, j)

-----------------------------------------------------------------------------
(* Resuming the session                                                     *)

resumePending == \E k \in DOMAIN raf : raf[k] = "resume"

(* C23: the tick run by the callback of a resume reports exactly the clock *)
(* time frozen at the pause, however many frames passed while the game was *)
(* paused or the playback was starting.  The callback ticks when the game  *)
(* runs; a frame that ends with the game running made every callback tick, *)
(* the callback of the resume last.                                        *)
C23_ResumeReportsFrozenTime ==
    [][(/\ last'.op = "frame"
        /\ last'.resets = 0
        /\ resumePending
        /\ game'.isRunning)
       => /\ last.frozen # {}
          /\ conductor'.performanceStartTime = now'
          /\ getCurrentTime(conductor') \in last.frozen]_vars

(* The first tick after a resume, two frames or more after the pause of a  *)
(* game with music, reporting the time of the pause.                       *)
C23_Witness ==
    /\ last.op = "frame"
    /\ last.resets = 0
    /\ last.ticks = 1
    /\ game.hasMusic /\ game.isRunning /\ conductor.isRunning
    /\ last.frozen = {750}
    /\ getCurrentTime(conductor) = 750
    /\ now - StartNow >= 3000

-----------------------------------------------------------------------------
(* Seeking                                                                  *)

(* C24 as stated: the first update after a seekTo(t) on a running clock    *)
(* reports exactly t.                                                      *)
C24_FirstUpdateReportsTarget ==
    [][(last'.op = "update" /\ last.op = "seekTo" /\ last.seek # {})
       => clock' = last.time]_vars

(* C24: seekTo(t) on a running clock sets the offset to t and anchors the  *)
(* clock at the instant of the call, so every update after it, until the   *)
(* next pause, reset or seekTo, reports t plus the time from the seekTo    *)
(* call to the timestamp of that update.                                   *)
C24_UpdatesCountFromTheSeek ==
    [][/\ (last'.op = "seekTo" /\ conductor.isRunning) =>
            /\ conductor'.timeOffset = last'.time
            /\ conductor'.performanceStartTime = now
       /\ (last'.op = "update" /\ last.seek # {}) =>
            \A s \in last.seek : clock' = s.time + (now' - s.at)]_vars

(* The second update after seekTo(400) on a running clock, 350 ms after    *)
(* the call, reporting 750.                                                *)
C24_Witness ==
    /\ last.op = "update"
    /\ \E s \in last.seek : s.time = 400 /\ now - s.at = 350
    /\ clock = 750

(* C25: a seekTo(t) that found the clock paused is kept by the start or    *)
(* the resume that follows: the first update of the running clock after it *)
(* counts from t, so it reports t or more, with t as the offset.           *)
C25_PausedSeekIsKept ==
    [][(/\ last'.op \in {"update", "resume"}
        /\ conductor'.isRunning
        /\ last.pausedTarget # {})
       => \A t \in last.pausedTarget :
              /\ conductor'.timeOffset = t
              /\ clock' >= t]_vars

-----------------------------------------------------------------------------
(* Pausing the session                                                      *)

(* No start or resume has been requested since the game stopped running:   *)
(* a request either still awaits the playback or has set game.isRunning.   *)
noResumeRequested == ~game.isRunning /\ awaiting = <<>>

(* C26: Game.pause leaves the clock not running, and while no start or     *)
(* resume has been requested since, no animation frame sets it running,    *)
(* whatever callbacks earlier resumes left pending.                        *)
C26_PausedClockStaysPaused ==
    [][/\ last'.op = "pause" => ~conductor'.isRunning /\ ~game'.isRunning
       /\ (/\ last'.op = "frame"
           /\ noResumeRequested
           /\ ~conductor.isRunning)
          => ~conductor'.isRunning]_vars

(* C27: a lane press while the session is paused changes nothing of the    *)
(* game: the notes and their states, score, combo, maxCombo and the counts *)
(* are after the press what they were before it.                           *)
C27_PausedPressChangesNothing ==
    [][(last'.op = "hit" /\ game.isReady /\ ~game.isRunning)
       => noteManager' = noteManager]_vars

-----------------------------------------------------------------------------
(* Ties and statistics                                                      *)

(* The place of note i in the active set.                                  *)
activeIndex(nm, i) == CHOOSE k \in DOMAIN nm.activeNotes : nm.activeNotes[k] = i

(* C28: when Pending notes of the pressed lane are equally near to the     *)
(* press time, hit resolves the one that comes first in the active set,    *)
(* the one spawned earlier, and leaves the others Pending.                 *)
C28_FirstOfEquallyNearWins ==
    [][last'.op = "hit" =>
        \A i \in changedNotes(noteManager, noteManager') :
            \A j \in pendingOnLane(noteManager, last'.track) \ {i} :
                timeError(nmNotes[j], clock) = timeError(nmNotes[i], clock) =>
                    /\ activeIndex(noteManager, i) < activeIndex(noteManager, j)
                    /\ i < j
                    /\ isPending(noteManager'.notes[j])]_vars

(* A press midway between two Pending notes of its lane: the first note is *)
(* Hit, the second still Pending.                                          *)
C28_Witness ==
    /\ last.op = "hit"
    /\ last.resolved = 1
    /\ Len(nmNotes) = 2
    /\ nmNotes[1].isHit
    /\ isPending(nmNotes[2])
    /\ nmNotes[2].track = nmNotes[1].track
    /\ nmNotes[2].hitTime > nmNotes[1].hitTime
    /\ timeError(nmNotes[2], clock) = timeError(nmNotes[1], clock)

hitCounts(nm) ==
    nm.judgmentCounts.PERFECT + nm.judgmentCounts.GREAT + nm.judgmentCounts.GOOD

statsAgree(nm) ==
    /\ nm.score = weightedCounts(nm)
    /\ 0 <= nm.combo
    /\ nm.combo <= nm.maxCombo
    /\ nm.maxCombo <= hitCounts(nm)

(* C29: in every state score = 100*counts[PERFECT] + 80*counts[GREAT] +    *)
(* 50*counts[GOOD] and 0 <= combo <= maxCombo <= counts[PERFECT] +         *)
(* counts[GREAT] + counts[GOOD]; and no operation but reset lowers score.  *)
C29_StatsAgree ==
    /\ statsAgree(noteManager)
    /\ [][/\ statsAgree(noteManager')
          /\ last'.op # "reset" => noteManager'.score >= noteManager.score]_vars

(* Two hits, a Miss that ended the combo of two, and one more hit, one of  *)
(* each tier: combo 1, maxCombo 2, three hits, score 230.                  *)
C29_Witness ==
    /\ last.op = "addJudgment"
    /\ noteManager.combo = 1
    /\ noteManager.maxCombo = 2
    /\ hitCounts(noteManager) = 3
    /\ noteManager.judgmentCounts.MISS = 1
    /\ noteManager.score = 230

resolvedNotes(nm) == {i \in DOMAIN nm.notes : ~isPending(nm.notes[i])}

(* C30: a spawned note is judged at most once: the four counts together    *)
(* never exceed the number of resolved notes, which are among the notes    *)
(* spawned; a press leaves every note that is Hit or Missed as it is and   *)
(* records a judgment only together with resolving one Pending note.       *)
C30_JudgedAtMostOnce ==
    /\ totalJudgments(noteManager) <= Cardinality(resolvedNotes(noteManager))
    /\ [][/\ totalJudgments(noteManager')
                <= Cardinality(resolvedNotes(noteManager'))
          /\ last'.op = "hit" =>
                /\ \A i \in resolvedNotes(noteManager) :
                      noteManager'.notes[i] = nmNotes[i]
                /\ totalJudgments(noteManager') - totalJudgments(noteManager)
                      = Cardinality(resolvedNotes(noteManager')
                                      \ resolvedNotes(noteManager))
                /\ totalJudgments(noteManager') - totalJudgments(noteManager) <= 1]_vars

(* A second press on the lane of a note that the press before resolved and *)
(* that is still in the active set, within its window: no judgment, one    *)
(* judgment counted in all.                                                *)
C30_Witness ==
    /\ last.op = "hit"
    /\ last.judgment = null
    /\ totalJudgments(noteManager) = 1
    /\ \E i \in DOMAIN nmNotes :
          /\ nmNotes[i].isHit
          /\ isActive(noteManager, i)
          /\ nmNotes[i].track = last.track
          /\ timeError(nmNotes[i], clock) <= 200
    /\ \A j \in DOMAIN nmNotes : nmNotes[j].track = last.track => nmNotes[j].isHit

-----------------------------------------------------------------------------
(* What a press leaves alone                                                *)

(* C31: a press on a lane changes the state of at most one note, and only  *)
(* of a note on that lane: every note on another lane, the list of notes   *)
(* and the active set, the chart, the chart index and the clock are after  *)
(* the press what they were before it.                                     *)
C31_HitTouchesOneNoteOfItsLane ==
    [][last'.op = "hit" =>
        /\ Cardinality(changedNotes(noteManager, noteManager')) <= 1
        /\ DOMAIN noteManager'.notes = DOMAIN nmNotes
        /\ \A i \in DOMAIN nmNotes :
              /\ nmNotes[i].track # last'.track => noteManager'.notes[i] = nmNotes[i]
              /\ noteManager'.notes[i].track = nmNotes[i].track
              /\ noteManager'.notes[i].hitTime = nmNotes[i].hitTime
        /\ noteManager'.activeNotes = noteManager.activeNotes
        /\ noteManager'.chart = noteManager.chart
        /\ noteManager'.chartIndex = noteManager.chartIndex
        /\ conductor' = conductor
        /\ now' = now]_vars

(* A press that resolved the note of its lane while a Pending note of      *)
(* another lane, nearer to the press time, stayed as it was.               *)
C31_Witness ==
    /\ last.op = "hit"
    /\ last.resolved # 0
    /\ nmNotes[last.resolved].track = last.track
    /\ \E j \in DOMAIN nmNotes :
          /\ nmNotes[j].track # last.track
          /\ isPending(nmNotes[j])
          /\ isActive(noteManager, j)
          /\ timeError(nmNotes[j], clock) < timeError(nmNotes[last.resolved], clock)

====
